---- MODULE Spec2Model ----
(***************************************************************************)
(* A model of neos.transforms (src/nbs/03_transforms.ipynb) and of         *)
(* neos.infer.expected_CLs (src/unnamed/part_000).                         *)
(*                                                                         *)
(* Numbers.  The program computes in float64.  The model computes in exact *)
(* fixed point:                                                            *)
(*   - a value of the unconstrained space is an angle, counted in steps of *)
(*     (pi/2)/QuarterTurn, so that -QuarterTurn..QuarterTurn is the        *)
(*     principal branch [-pi/2, pi/2];                                     *)
(*   - a sine is counted in 1/Scale;                                       *)
(*   - a value of the bounded space is counted in 1/Unit, Unit = 2*Scale,  *)
(*     which makes a + (b-a)*0.5*(sin+1) exact for integer a, b;           *)
(*   - a log-density and the test statistic are counted in 1/LScale, a     *)
(*     square root of one in 1/ZScale, a probability in 1/PScale.          *)
(* A number is a record [k, lo, hi]:                                       *)
(*   k = "val"   the number lo (= hi), exactly;                            *)
(*   k = "nan"   the float NaN;                                            *)
(*   k = "open"  some number strictly between lo and hi (what arcsin gives *)
(*               for a sine that lies between two sines of the table);     *)
(*   k = "any"   a number or NaN, the model cannot tell which;             *)
(*   k = "none"  not computed yet.                                         *)
(***************************************************************************)
EXTENDS Integers, Sequences, FiniteSets

VARIABLES
    \* ---- one call of get_expected_CLs ----
    pc,                 \* the call's position
    test_mu,            \* argument test_mu (an integer number of units)
    transforms,         \* solver_kwargs.get("pdf_transform", False)
    pvalues,            \* argument pvalues, the default bound when omitted
    pvalues_omitted,    \* whether the caller left pvalues out
    calls,              \* how often each collaborator has been called
    applied,            \* the transform functions applied so far, in order
    bonlypars,          \* model_maker's background-only point
    exp_data,           \* the parameter point the expected data was made at
    bounds,             \* m.config.suggested_bounds()
    initval,            \* the initial point handed to the fit
    fitres,             \* what c_fitter returned
    numerator,          \* the constrained best fit, in bounded space
    denominator,
    stat,               \* profile_likelihood, muhat, sqrtqmu, CLsb, CLb, CLs
    outcome,            \* "running", "returned" or "KeyError"
    result,             \* the returned list
    \* ---- a chain of transform applications ----
    tmode,              \* "scalar" (to_bounded / to_inf) or "vec" (the _vec pair)
    tspace,             \* the space of the chain's input: "inf" or "bounded"
    tbounds,            \* the bounds table of the chain
    thist               \* the input, then the result of each application

vars == <<pc, test_mu, transforms, pvalues, pvalues_omitted, calls, applied,
          bonlypars, exp_data, bounds, initval, fitres, numerator, denominator,
          stat, outcome, result, tmode, tspace, tbounds, thist>>

inferVars == <<pc, test_mu, transforms, pvalues, pvalues_omitted, calls, applied,
               bonlypars, exp_data, bounds, initval, fitres, numerator,
               denominator, stat, outcome, result>>

chainVars == <<tmode, tspace, tbounds, thist>>

----------------------------------------------------------------------------
(* Bounds of the model.                                                    *)

\* Angles of the unconstrained space run over -MaxAngle..MaxAngle steps.
MaxAngle == 5
\* Lower bounds run over -MaxLow..MaxLow.
MaxLow == 1
\* Upper bound minus lower bound runs over 1..MaxWidth.
MaxWidth == 2
\* Bounded-space inputs run over the half units -MaxHalf..MaxHalf.
MaxHalf == 7
\* A chain applies at most MaxChain transforms.
MaxChain == 3
\* test_mu runs over -1..MaxMu.
MaxMu == 3
\* The first background-only parameter runs over 0..MaxMuhat.
MaxMuhat == 2
\* A log-density runs over -MaxNll..0, in 1/LScale.
MaxNll == 2
\* pvalues has at most MaxPvalues elements.
MaxPvalues == 2

----------------------------------------------------------------------------
(* Numbers.                                                                *)

Val(n) == [k |-> "val", lo |-> n, hi |-> n]

NaN == [k |-> "nan", lo |-> 0, hi |-> 0]

Open(l, h) == [k |-> "open", lo |-> l, hi |-> h]

Unknown == [k |-> "any", lo |-> 0, hi |-> 0]

None == [k |-> "none", lo |-> 0, hi |-> 0]

\* A number that is certainly not NaN.
IsNumber(x) == x.k \in {"val", "open"}

\* sin at 0, 30, 60 and 90 degrees, in 1/Scale.
SinTab == <<0, 500, 866, 1000>>

QuarterTurn == Len(SinTab) - 1

\* 1.0 as a sine.
Scale == SinTab[Len(SinTab)]

\* 1.0 as a value of the bounded space.
Unit == 2 * Scale

\* jnp.sin of an angle of the grid: odd, of period 4 * QuarterTurn.
Sin(t) ==
    LET r == t % (4 * QuarterTurn)
    IN  IF r <= QuarterTurn THEN SinTab[r + 1]
        ELSE IF r <= 2 * QuarterTurn THEN SinTab[2 * QuarterTurn - r + 1]
        ELSE IF r <= 3 * QuarterTurn THEN 0 - SinTab[r - 2 * QuarterTurn + 1]
        ELSE 0 - SinTab[4 * QuarterTurn - r + 1]

Principal == (0 - QuarterTurn)..QuarterTurn

\* The greatest angle of the principal branch whose sine is <= num/den.
AngleBelow(num, den) ==
    CHOOSE t \in Principal :
        /\ Sin(t) * den <= num * Scale
        /\ \A u \in Principal : Sin(u) * den <= num * Scale => u <= t

\* The least angle of the principal branch whose sine is >= num/den.
AngleAbove(num, den) ==
    CHOOSE t \in Principal :
        /\ Sin(t) * den >= num * Scale
        /\ \A u \in Principal : Sin(u) * den >= num * Scale => u >= t

\* jnp.arcsin of the fraction num/den (den > 0): NaN outside [-1, 1], else the
\* angle of the principal branch with that sine.
ArcSin(num, den) ==
    IF num > den \/ num < 0 - den THEN NaN
    ELSE IF AngleBelow(num, den) = AngleAbove(num, den)
         THEN Val(AngleBelow(num, den))
         ELSE Open(AngleBelow(num, den), AngleAbove(num, den))

\* jnp.arcsin of a number strictly between numlo/den and numhi/den.
ArcSinOpen(numlo, numhi, den) ==
    IF numlo >= den \/ numhi <= 0 - den THEN NaN
    ELSE IF numlo < 0 - den \/ numhi > den THEN Unknown
    ELSE Open(AngleBelow(numlo, den), AngleAbove(numhi, den))

----------------------------------------------------------------------------
(* neos.transforms                                                         *)

\* a + (b - a) * 0.5 * (jnp.sin(param) + 1.0), without the 0.5.
to_bounded_no_half(param, bnd) ==
    LET a == bnd[1]
        b == bnd[2]
        f(t) == a * Unit + ((b - a) * Unit * (Sin(t) + Scale)) \div Scale
    IN  CASE param.k = "val" -> Val(f(param.lo))
          [] param.k = "open" -> Open(f(param.lo), f(param.hi))
          [] OTHER -> param

\* [-inf, inf] -> [a,b]
to_bounded(param, bnd) ==
    LET a == bnd[1]
        b == bnd[2]
        f(t) == a * Unit + ((b - a) * (Unit \div 2) * (Sin(t) + Scale)) \div Scale
    IN  CASE param.k = "val" -> Val(f(param.lo))
          [] param.k = "open" -> Open(f(param.lo), f(param.hi))
          [] OTHER -> param

\* [-inf, inf] <- [a,b]:  x = (2.0 * param - a) / (b - a) - 1.0; arcsin(x).
\* x is the fraction xnum(p) / den for param = p / Unit.
to_inf(param, bnd) ==
    LET a == bnd[1]
        b == bnd[2]
        xnum(p) == (2 * p - a * Unit) - (b - a) * Unit
        den == (b - a) * Unit
    IN  CASE param.k = "val" -> ArcSin(xnum(param.lo), den)
          [] param.k = "open" -> ArcSinOpen(xnum(param.lo), xnum(param.hi), den)
          [] OTHER -> param

\* [-inf, inf] -> [a,b] (vectors): row i of bounds for component i.
to_bounded_vec(param, bnds) ==
    [i \in 1..Len(param) |-> to_bounded(param[i], <<bnds[i][1], bnds[i][2]>>)]

\* [-inf, inf] <- [a,b] (vectors)
to_inf_vec(param, bnds) ==
    [i \in 1..Len(param) |-> to_inf(param[i], <<bnds[i][1], bnds[i][2]>>)]

----------------------------------------------------------------------------
(* Chains of transform applications, as the notebook's test cells run      *)
(* them: an input, a bounds table, and the transforms applied in turn.     *)

BoundPairs ==
    {<<a, a + w>> : a \in (0 - MaxLow)..MaxLow, w \in 1..MaxWidth}

\* Inputs of the unconstrained space: angles of the grid, on and off the
\* principal branch.
InfInputs == {Val(t) : t \in (0 - MaxAngle)..MaxAngle}

\* Inputs of the bounded space: the half units.
BoundedInputs == {Val(j * (Unit \div 2)) : j \in (0 - MaxHalf)..MaxHalf}

ChainInputs(space) == IF space = "inf" THEN InfInputs ELSE BoundedInputs

\* The space the last value of the chain lives in.
CurSpace ==
    IF Len(thist) % 2 = 1 THEN tspace
    ELSE IF tspace = "inf" THEN "bounded" ELSE "inf"

Last(s) == s[Len(s)]

ChainIdle ==
    /\ tmode = "idle"
    /\ tspace = "inf"
    /\ tbounds = <<>>
    /\ thist = <<>>

ChainInit ==
    /\ tspace \in {"inf", "bounded"}
    /\ \/ /\ tmode = "scalar"
          /\ \E bnd \in BoundPairs : tbounds = <<bnd>>
          /\ \E x \in ChainInputs(tspace) : thist = <<x>>
       \/ /\ tmode = "vec"
          /\ \E b1 \in BoundPairs, b2 \in BoundPairs : tbounds = <<b1, b2>>
          /\ \E x1 \in ChainInputs(tspace), x2 \in ChainInputs(tspace) :
                thist = << <<x1, x2>> >>

ApplyToBounded ==
    /\ tmode = "scalar"
    /\ CurSpace = "inf"
    /\ Len(thist) <= MaxChain
    /\ thist' = Append(thist, to_bounded(Last(thist), tbounds[1]))
    /\ UNCHANGED <<tmode, tspace, tbounds, inferVars>>

ApplyToInf ==
    /\ tmode = "scalar"
    /\ CurSpace = "bounded"
    /\ Len(thist) <= MaxChain
    /\ thist' = Append(thist, to_inf(Last(thist), tbounds[1]))
    /\ UNCHANGED <<tmode, tspace, tbounds, inferVars>>

ApplyToBoundedVec ==
    /\ tmode = "vec"
    /\ CurSpace = "inf"
    /\ Len(thist) <= MaxChain
    /\ thist' = Append(thist, to_bounded_vec(Last(thist), tbounds))
    /\ UNCHANGED <<tmode, tspace, tbounds, inferVars>>

ApplyToInfVec ==
    /\ tmode = "vec"
    /\ CurSpace = "bounded"
    /\ Len(thist) <= MaxChain
    /\ thist' = Append(thist, to_inf_vec(Last(thist), tbounds))
    /\ UNCHANGED <<tmode, tspace, tbounds, inferVars>>

InferIdle ==
    /\ pc = "idle"
    /\ test_mu = 0
    /\ transforms = FALSE
    /\ pvalues = <<>>
    /\ pvalues_omitted = FALSE
    /\ calls = [model_maker |-> 0, c_fitter |-> 0, g_fitter |-> 0]
    /\ applied = <<>>
    /\ bonlypars = <<>>
    /\ exp_data = <<>>
    /\ bounds = <<>>
    /\ initval = <<>>
    /\ fitres = [args |-> <<>>, value |-> <<>>]
    /\ numerator = <<>>
    /\ denominator = <<>>
    /\ stat = [profile_likelihood |-> None, muhat |-> None, sqrtqmu |-> None,
               CLsb |-> None, CLb |-> None, CLs |-> None]
    /\ outcome = "running"
    /\ result = <<>>

TransformInit == ChainInit /\ InferIdle

TransformNext ==
    \/ ApplyToBounded
    \/ ApplyToInf
    \/ ApplyToBoundedVec
    \/ ApplyToInfVec

TransformSpec == TransformInit /\ [][TransformNext]_vars

----------------------------------------------------------------------------
(* neos.infer: float arithmetic of the test statistic.                     *)

\* Steps of 1/ZScale for the argument of the normal CDF.
ZScale == 2

\* A log-density and the test statistic are counted in 1/LScale.
LScale == ZScale * ZScale

\* The standard normal CDF at 0, 0.5, 1.0, ... 4.0, in 1/PScale.
NormalCdfTab == <<5000, 6915, 8413, 9332, 9772, 9938, 9987, 9998, 10000>>

\* 1.0 as a probability: twice the CDF at 0.
PScale == 2 * NormalCdfTab[1]

\* The integer square root.
ISqrt(n) == CHOOSE r \in 0..n : r * r <= n /\ n < (r + 1) * (r + 1)

\* jnp.sqrt of a number in 1/LScale, in 1/ZScale: NaN below zero.
Sqrt(x) ==
    IF x.k = "val" /\ x.lo >= 0
    THEN Val(ISqrt((x.lo * ZScale * ZScale) \div LScale))
    ELSE NaN

\* pyhf.tensorlib.normal_cdf of a number in 1/ZScale.
normal_cdf(z) ==
    LET at(n) == NormalCdfTab[(IF n < Len(NormalCdfTab) THEN n ELSE Len(NormalCdfTab) - 1) + 1]
    IN  IF z.k /= "val" THEN NaN
        ELSE IF z.lo >= 0 THEN Val(at(z.lo))
        ELSE Val(PScale - at(0 - z.lo))

\* 1 - p
OneMinus(p) == IF p.k = "val" THEN Val(PScale - p.lo) ELSE NaN

\* p / q of two probabilities
Ratio(p, q) ==
    IF p.k = "val" /\ q.k = "val" /\ q.lo /= 0
    THEN Val((p.lo * PScale) \div q.lo)
    ELSE NaN

\* -2 * (logpdf(numerator) - logpdf(denominator))
profile_likelihood_of(lnum, lden) ==
    IF lnum.k = "val" /\ lden.k = "val"
    THEN Val((0 - 2) * (lnum.lo - lden.lo))
    ELSE NaN

\* jnp.where(muhat <= test_mu, ...): the boundary on the wrong side.
q_effective_le(muhat, tmu, pl) ==
    IF muhat.k = "val" /\ muhat.lo <= tmu * Unit THEN pl ELSE Val(0)

\* jnp.where(muhat < test_mu, profile_likelihood, 0.0); a comparison with
\* NaN is false.
q_effective(muhat, tmu, pl) ==
    IF muhat.k = "val" /\ muhat.lo < tmu * Unit THEN pl ELSE Val(0)

\* Lines 101-111: the test statistic and the three p-values.
test_statistic(lnum, lden, denom, tmu) ==
    LET pl == profile_likelihood_of(lnum, lden)
        muhat == denom[1]
        sqrtqmu == Sqrt(q_effective(muhat, tmu, pl))
        CLsb == OneMinus(normal_cdf(sqrtqmu))
        altval == Val(0)
        CLb == OneMinus(normal_cdf(altval))
        CLs == Ratio(CLsb, CLb)
    IN  [profile_likelihood |-> pl, muhat |-> muhat, sqrtqmu |-> sqrtqmu,
         CLsb |-> CLsb, CLb |-> CLb, CLs |-> CLs]

\* dict(CLs=CLs, p_sb=CLsb, p_b=CLb)
pdict_of(st) == [CLs |-> st.CLs, p_sb |-> st.CLsb, p_b |-> st.CLb]

\* [pdict[key] for key in pdict if key in pvalues]: the dict's order, no
\* repeats, no KeyError.
return_pvalues_dict_order(pdict, pvs) ==
    LET keys == <<"CLs", "p_sb", "p_b">>
        asked(k) == \E i \in 1..Len(pvs) : pvs[i] = k
        kept == SelectSeq(keys, asked)
    IN  [outcome |-> "returned",
         value |-> [i \in 1..Len(kept) |-> pdict[kept[i]]]]

\* [pdict[key] for key in pvalues if key in pdict]: unknown keys skipped.
return_pvalues_skip(pdict, pvs) ==
    LET known(k) == k \in DOMAIN pdict
        kept == SelectSeq(pvs, known)
    IN  [outcome |-> "returned",
         value |-> [i \in 1..Len(kept) |-> pdict[kept[i]]]]

\* return [pdict[key] for key in pvalues]: a key that pdict lacks raises
\* KeyError out of the comprehension, and nothing is returned.
return_pvalues(pdict, pvs) ==
    IF \A i \in 1..Len(pvs) : pvs[i] \in DOMAIN pdict
    THEN [outcome |-> "returned",
          value |-> [i \in 1..Len(pvs) |-> pdict[pvs[i]]]]
    ELSE [outcome |-> "KeyError", value |-> <<>>]

\* initval, with to_inf_vec applied whatever pdf_transform says.
map_initval_always(tmu, tr, bnds) ==
    [value |-> to_inf_vec(<<Val(tmu * Unit), Val(Unit)>>, bnds),
     applied |-> <<"to_inf_vec">>]

\* Lines 84-87: initval = [test_mu, 1.0], mapped by to_inf_vec if transforms.
map_initval(tmu, tr, bnds) ==
    IF tr
    THEN [value |-> to_inf_vec(<<Val(tmu * Unit), Val(Unit)>>, bnds),
          applied |-> <<"to_inf_vec">>]
    ELSE [value |-> <<Val(tmu * Unit), Val(Unit)>>, applied |-> <<>>]

\* The fit's result taken as it is, never mapped back.
map_numerator_never(fit, tr, bnds) == [value |-> fit, applied |-> <<>>]

\* Lines 90-94: the fit's result, mapped by to_bounded_vec if transforms.
map_numerator(fit, tr, bnds) ==
    IF tr
    THEN [value |-> to_bounded_vec(fit, bnds), applied |-> <<"to_bounded_vec">>]
    ELSE [value |-> fit, applied |-> <<>>]

----------------------------------------------------------------------------
(* The collaborators get_expected_CLs calls.                               *)

\* The fit's nuisance result runs over -MaxFit..MaxFit: angle steps when the
\* fit works in the unconstrained space, half units otherwise.
MaxFit == 1

\* constrained_fit's callable: the first component pinned to test_mu (its
\* unconstrained representation under pdf_transform), the other one fitted.
c_fitter(init, tmu, tr, bnds, nuis) ==
    IF tr
    THEN <<to_inf(Val(tmu * Unit), <<bnds[1][1], bnds[1][2]>>), Val(nuis)>>
    ELSE <<Val(tmu * Unit), Val(nuis * (Unit \div 2))>>

\* m.logpdf(pars, data)[0]: some log-density, NaN at a point that is NaN.
LogpdfValues(pars) ==
    IF \A i \in 1..Len(pars) : IsNumber(pars[i])
    THEN {Val(0 - j) : j \in 0..MaxNll}
    ELSE {NaN}

----------------------------------------------------------------------------
(* One call of get_expected_CLs(params, test_mu, hyperparams, pvalues).    *)

PvalueKeys == {"CLs", "p_sb", "p_b"}

\* What a caller may pass as a key: the three keys and one that is none.
ArgKeys == PvalueKeys \cup {"CLb"}

PvalueArgs == UNION {[1..n -> ArgKeys] : n \in 0..MaxPvalues}

\* pvalues=["CLs"], the default of the signature.
DefaultPvalues == <<"CLs">>

\* The bounds tables a model suggests: the signal strength from 0 or from a
\* positive lower bound, the nuisance parameter from 0 or around 0.
ModelBounds ==
    {<<b1, b2>> : b1 \in {<<0, MaxWidth>>, <<MaxLow, MaxLow + MaxWidth>>},
                  b2 \in {<<0, MaxWidth>>, <<0 - MaxLow, MaxLow>>}}

NoStat ==
    [profile_likelihood |-> None, muhat |-> None, sqrtqmu |-> None,
     CLsb |-> None, CLb |-> None, CLs |-> None]

InferInit ==
    /\ pc = "call"
    /\ test_mu \in (0 - 1)..MaxMu
    /\ transforms \in BOOLEAN
    /\ \/ pvalues_omitted = TRUE /\ pvalues = DefaultPvalues
       \/ pvalues_omitted = FALSE /\ pvalues \in PvalueArgs
    /\ calls = [model_maker |-> 0, c_fitter |-> 0, g_fitter |-> 0]
    /\ applied = <<>>
    /\ bonlypars = <<>>
    /\ exp_data = <<>>
    /\ bounds = <<>>
    /\ initval = <<>>
    /\ fitres = [args |-> <<>>, value |-> <<>>]
    /\ numerator = <<>>
    /\ denominator = <<>>
    /\ stat = NoStat
    /\ outcome = "running"
    /\ result = <<>>

\* Line 77: c_fitter = constrained_fit(model_maker, **solver_kwargs).
BuildFitter ==
    /\ pc = "call"
    /\ pc' = "built"
    /\ UNCHANGED <<test_mu, transforms, pvalues, pvalues_omitted, calls, applied,
                   bonlypars, exp_data, bounds, initval, fitres, numerator,
                   denominator, stat, outcome, result, chainVars>>

\* Lines 79-81: the model, its background-only point, the expected data at
\* that point, the suggested bounds.
MakeModel ==
    /\ pc = "built"
    /\ \E mu \in 0..MaxMuhat, bnds \in ModelBounds :
          /\ bonlypars' = <<Val(mu * Unit), Val(Unit)>>
          /\ bounds' = bnds
    /\ exp_data' = bonlypars'
    /\ calls' = [calls EXCEPT !.model_maker = @ + 1]
    /\ pc' = "model"
    /\ UNCHANGED <<test_mu, transforms, pvalues, pvalues_omitted, applied,
                   initval, fitres, numerator, denominator, stat, outcome,
                   result, chainVars>>

\* Lines 84-87.
MapInitval ==
    /\ pc = "model"
    /\ initval' = map_initval(test_mu, transforms, bounds).value
    /\ applied' = applied \o map_initval(test_mu, transforms, bounds).applied
    /\ pc' = "init"
    /\ UNCHANGED <<test_mu, transforms, pvalues, pvalues_omitted, calls,
                   bonlypars, exp_data, bounds, fitres, numerator, denominator,
                   stat, outcome, result, chainVars>>

\* Lines 90-94: the constrained fit, pinned to test_mu.
ConstrainedFit ==
    /\ pc = "init"
    /\ \E nuis \in (0 - MaxFit)..MaxFit :
          fitres' = [args |-> <<initval, test_mu>>,
                     value |-> c_fitter(initval, test_mu, transforms, bounds, nuis)]
    /\ calls' = [calls EXCEPT !.c_fitter = @ + 1]
    /\ numerator' = map_numerator(fitres'.value, transforms, bounds).value
    /\ applied' = applied \o map_numerator(fitres'.value, transforms, bounds).applied
    /\ pc' = "fitted"
    /\ UNCHANGED <<test_mu, transforms, pvalues, pvalues_omitted, bonlypars,
                   exp_data, bounds, initval, denominator, stat, outcome,
                   result, chainVars>>

\* Lines 97-111: denominator = bonlypars, the test statistic, the p-values.
TestStatistic ==
    /\ pc = "fitted"
    /\ denominator' = bonlypars
    /\ \E lnum \in LogpdfValues(numerator), lden \in LogpdfValues(bonlypars) :
          /\ numerator = bonlypars => lnum = lden
          /\ stat' = test_statistic(lnum, lden, denominator', test_mu)
    /\ pc' = "stat"
    /\ UNCHANGED <<test_mu, transforms, pvalues, pvalues_omitted, calls, applied,
                   bonlypars, exp_data, bounds, initval, fitres, numerator,
                   outcome, result, chainVars>>

\* Lines 113-114.
Return ==
    /\ pc = "stat"
    /\ outcome' = return_pvalues(pdict_of(stat), pvalues).outcome
    /\ result' = return_pvalues(pdict_of(stat), pvalues).value
    /\ pc' = "done"
    /\ UNCHANGED <<test_mu, transforms, pvalues, pvalues_omitted, calls, applied,
                   bonlypars, exp_data, bounds, initval, fitres, numerator,
                   denominator, stat, chainVars>>

Init == InferInit /\ ChainIdle

Next ==
    \/ BuildFitter
    \/ MakeModel
    \/ MapInitval
    \/ ConstrainedFit
    \/ TestStatistic
    \/ Return

Spec == Init /\ [][Next]_vars

----------------------------------------------------------------------------
(* Properties of the transforms, stated on the chains.                     *)

\* Whether two numbers of the model can be the same real number.
Consistent(x, y) ==
    CASE x.k = "any" \/ y.k = "any" -> TRUE
      [] x.k = "val" /\ y.k = "val" -> x.lo = y.lo
      [] x.k = "val" /\ y.k = "open" -> y.lo < x.lo /\ x.lo < y.hi
      [] x.k = "open" /\ y.k = "val" -> x.lo < y.lo /\ y.lo < x.hi
      [] x.k = "open" /\ y.k = "open" -> x.lo < y.hi /\ y.lo < x.hi
      [] OTHER -> FALSE

\* The chain's values as vectors, whatever its mode.
AsVec(v) == IF tmode = "scalar" THEN <<v>> ELSE v

Components == 1..Len(tbounds)

\* The space of the chain's i-th value.
SpaceAt(i) ==
    IF i % 2 = 1 THEN tspace
    ELSE IF tspace = "inf" THEN "bounded" ELSE "inf"

InBox(y, bnd) ==
    /\ IsNumber(y)
    /\ bnd[1] * Unit <= y.lo
    /\ y.hi <= bnd[2] * Unit

\* C1 (as claimed): for a < b, also with a /= 0, and x on the principal
\* branch, to_inf(to_bounded(x, (a,b)), (a,b)) = x; component-wise for the
\* vector pair, each component with its own row of bounds.
C1_RoundTripFromInf ==
    (tspace = "inf" /\ Len(thist) >= 3) =>
        \A c \in Components :
            AsVec(thist[1])[c].lo \in Principal =>
                AsVec(thist[3])[c] = AsVec(thist[1])[c]

\* C2 (as claimed): for a < b and y strictly inside (a,b),
\* to_bounded(to_inf(y, (a,b)), (a,b)) = y, and hence
\* to_inf_vec(to_bounded_vec(to_inf_vec(p))) = to_inf_vec(p).
C2_RoundTripFromBounded ==
    (tspace = "bounded" /\ Len(thist) >= 3) =>
        \A c \in Components :
            ( /\ tbounds[c][1] * Unit < AsVec(thist[1])[c].lo
              /\ AsVec(thist[1])[c].lo < tbounds[c][2] * Unit ) =>
                /\ Consistent(AsVec(thist[3])[c], AsVec(thist[1])[c])
                /\ Len(thist) >= 4 =>
                       Consistent(AsVec(thist[4])[c], AsVec(thist[2])[c])

\* C3: for a < b and every real x, of any magnitude and sign,
\* to_bounded(x, (a,b)) lies in [a,b]; the same for every component of
\* to_bounded_vec against its own row of bounds.
C3_Boundedness ==
    \A i \in 1..(Len(thist) - 1) :
        SpaceAt(i) = "inf" =>
            \A c \in Components :
                IsNumber(AsVec(thist[i])[c]) =>
                    InBox(AsVec(thist[i + 1])[c], tbounds[c])

\* C3's case: angles beyond the principal branch, of both signs, mapped by
\* to_bounded_vec.
C3_Witness ==
    /\ tmode = "vec"
    /\ tspace = "inf"
    /\ Len(thist) >= 2
    /\ thist[1][1].lo > QuarterTurn
    /\ thist[1][2].lo < 0 - QuarterTurn
    /\ tbounds[1][1] /= 0

\* C4 (as claimed): to_inf(y, (a,b)) is defined for every y in [a,b], with
\* y = a giving -pi/2 and y = b giving +pi/2, and is NaN for every y outside
\* [a,b]; the same per component of to_inf_vec.
C4_InverseDomain ==
    (tspace = "bounded" /\ Len(thist) >= 2) =>
        \A c \in Components :
            LET y == AsVec(thist[1])[c].lo
                r == AsVec(thist[2])[c]
                a == tbounds[c][1] * Unit
                b == tbounds[c][2] * Unit
            IN  /\ (a <= y /\ y <= b) => IsNumber(r)
                /\ y = a => r = Val(0 - QuarterTurn)
                /\ y = b => r = Val(QuarterTurn)
                /\ (y < a \/ y > b) => r = NaN

----------------------------------------------------------------------------
(* Properties of get_expected_CLs.                                         *)

AfterModel == pc \in {"model", "init", "fitted", "stat", "done"}

AfterInitval == pc \in {"init", "fitted", "stat", "done"}

AfterFit == pc \in {"fitted", "stat", "done"}

AfterStat == pc \in {"stat", "done"}

AllKeysKnown == \A i \in 1..Len(pvalues) : pvalues[i] \in PvalueKeys

Half == Val(PScale \div 2)

One == Val(PScale)

\* The value the specification gives a key.
ValueOfKey(key) ==
    CASE key = "CLs" -> Ratio(stat.CLsb, stat.CLb)
      [] key = "p_sb" -> stat.CLsb
      [] key = "p_b" -> Half

C6_OneSidedExclusion ==
    AfterStat =>
        /\ stat.muhat = denominator[1]
        /\ stat.muhat.lo >= test_mu * Unit =>
              /\ stat.sqrtqmu = Val(0)
              /\ stat.CLsb = Half
              /\ stat.CLs = One
        /\ stat.muhat.lo < test_mu * Unit =>
              stat.sqrtqmu = Sqrt(stat.profile_likelihood)

\* C6's case: the boundary muhat = test_mu with a test statistic that is
\* not zero.
C6_Witness ==
    /\ pc = "stat"
    /\ stat.muhat.lo = test_mu * Unit
    /\ stat.profile_likelihood.k = "val"
    /\ stat.profile_likelihood.lo > 0

\* C7: if a key of pvalues is none of CLs, p_sb, p_b, the call ends in an
\* error raised by that call as it returns, and no partial list is returned.
C7_UnknownKey ==
    /\ (pc = "done" /\ ~AllKeysKnown) => (outcome = "KeyError" /\ result = <<>>)
    /\ pc /= "done" => (outcome = "running" /\ result = <<>>)
    /\ outcome = "KeyError" => ~AllKeysKnown

\* C7's case: a known key first, an unknown one after it.
C7_Witness ==
    /\ pc = "done"
    /\ pvalues = <<"CLs", "CLb">>
    /\ stat.CLs.k = "val"
    /\ outcome = "KeyError"

TestMuOutside ==
    \/ test_mu < bounds[1][1]
    \/ test_mu > bounds[1][2]

\* C8 (as claimed): for every test_mu outside bounds[0], with pdf_transform
\* set or not, the initial point handed to the fit is a vector of real
\* numbers, never NaN, and test_mu reaches the fit as the pinned value.
C8_TestMuOutsideBounds ==
    (AfterInitval /\ TestMuOutside) =>
        /\ IsNumber(initval[1])
        /\ AfterFit => fitres.args = <<initval, test_mu>>

\* C8 (amended): without pdf_transform the initial point is [test_mu, 1.0]
\* for every test_mu.  With pdf_transform its first component is NaN exactly
\* when (2 test_mu - a) / (b - a) - 1 lies outside [-1, 1], (a, b) being
\* bounds[0]; for a = 0 that is exactly when test_mu lies outside [a, b].
\* Either way the fit is pinned to test_mu.
C8_Amended ==
    AfterInitval =>
        LET a == bounds[1][1]
            b == bounds[1][2]
            x == (2 * test_mu - a) - (b - a)
        IN  /\ ~transforms => initval = <<Val(test_mu * Unit), Val(Unit)>>
            /\ transforms => (initval[1] = NaN <=> (x > b - a \/ x < a - b))
            /\ (transforms /\ a = 0) => (initval[1] = NaN <=> TestMuOutside)
            /\ AfterFit => fitres.args = <<initval, test_mu>>

\* C8's case: pdf_transform set and test_mu above bounds[0].
C8_Witness ==
    /\ pc = "fitted"
    /\ transforms
    /\ test_mu > bounds[1][2]
    /\ initval[1] = NaN

Max0(n) == IF n > 0 THEN n ELSE 0

\* C9 (as claimed): for every value of q, negative ones with
\* muhat < test_mu included, sqrtqmu = sqrt(max(q_effective, 0)), a real
\* number >= 0, and CLsb and CLs are defined with CLsb <= 0.5.
C9_SqrtClamped ==
    (AfterStat /\ stat.profile_likelihood.k = "val") =>
        LET qeff == IF stat.muhat.lo < test_mu * Unit
                    THEN stat.profile_likelihood.lo ELSE 0
        IN  /\ stat.sqrtqmu = Sqrt(Val(Max0(qeff)))
            /\ stat.sqrtqmu.lo >= 0
            /\ stat.CLsb.k = "val"
            /\ stat.CLsb.lo <= Half.lo
            /\ stat.CLs.k = "val"

\* C10: in every call the model is built once, the expected data is made at
\* bonlypars of that model, the constrained fit runs once, pinned to test_mu,
\* the global fit never runs, and the denominator of the test statistic and
\* of muhat is bonlypars; under pdf_transform the initial point is mapped by
\* to_inf_vec and the fit's result mapped back by to_bounded_vec, and
\* otherwise no transform is applied.
C10_AsimovCoupling ==
    /\ calls.g_fitter = 0
    /\ calls.model_maker = (IF AfterModel THEN 1 ELSE 0)
    /\ calls.c_fitter = (IF AfterFit THEN 1 ELSE 0)
    /\ AfterModel => exp_data = bonlypars
    /\ AfterFit => fitres.args = <<initval, test_mu>>
    /\ AfterStat => (denominator = bonlypars /\ stat.muhat = bonlypars[1])
    /\ (AfterInitval /\ transforms) =>
          initval = to_inf_vec(<<Val(test_mu * Unit), Val(Unit)>>, bounds)
    /\ (AfterFit /\ transforms) =>
          /\ numerator = to_bounded_vec(fitres.value, bounds)
          /\ applied = <<"to_inf_vec", "to_bounded_vec">>
    /\ ~transforms => applied = <<>>
    /\ (AfterInitval /\ ~transforms) => initval = <<Val(test_mu * Unit), Val(Unit)>>
    /\ (AfterFit /\ ~transforms) => numerator = fitres.value

\* C10's case: a finished call under pdf_transform.
C10_Witness ==
    /\ pc = "done"
    /\ transforms
    /\ calls = [model_maker |-> 1, c_fitter |-> 1, g_fitter |-> 0]
    /\ applied = <<"to_inf_vec", "to_bounded_vec">>
    /\ denominator = bonlypars
    /\ numerator /= fitres.value

====
